---------------------------- MODULE Spec2Model ----------------------------
(***************************************************************************)
(* The Shifting Maze: the maze grid and its generation (maze.h), the       *)
(* dynamic walls and the periodic shift event (maze.h), the collision      *)
(* query (maze.h) and the enemies' motion (enemy.h).                       *)
(*                                                                         *)
(* Numbers.  The program computes in float; the model computes in fixed    *)
(* point, with units chosen so that every constant of the program is an    *)
(* integer:                                                                *)
(*   time              1/100 of a second (30.0f seconds is 3000)           *)
(*   rates             1/100 per second  (0.3f is 30, 45.0f is 4500)       *)
(*   animated values   rate * time, i.e. 1/10000 (1.0f is 10000)           *)
(*   world lengths     1/100 of a world unit (cellSize 2.0f is 200)        *)
(* Float rounding is not modelled.                                         *)
(***************************************************************************)
EXTENDS Integers, Sequences, FiniteSets

(***************************************************************************)
(* Bounds of the model.                                                    *)
(***************************************************************************)
\* Maze::SIZE of the model (maze.h:222 sets 10): the grid is SIZE x SIZE.
SIZE == 6
\* numDynamic of the model (maze.h:328 sets 5): walls addDynamicWalls places.
numDynamic == 1

(***************************************************************************)
(* enum CellType, maze.h:25-34                                             *)
(***************************************************************************)
CELL_EMPTY == 0
CELL_WALL == 1
CELL_DYNAMIC_ROTATE == 2
CELL_DYNAMIC_SLIDE == 3
CELL_DYNAMIC_SCALE == 4
CELL_START == 5
CELL_EXIT == 6
\* int grid[SIZE][SIZE] is not initialised by Maze(): until generate() has
\* written a cell its value is indeterminate, and nothing reads it.
CELL_INDETERMINATE == -1

Coord == 0 .. (SIZE - 1)

\* while (attempts < 50), maze.h:332
MaxAttempts == 50

VARIABLES
    pc,            \* where the maze is: "constructed", inside generate(), "ready"
    grid,          \* Maze::grid
    stack,         \* the activations of generatePaths, innermost last
    wallIdx,       \* addDynamicWalls: i
    attempts,      \* addDynamicWalls: attempts
    dynamicWalls,  \* Maze::dynamicWalls
    shiftTimer,    \* Maze::shiftTimer
    elapsed,       \* observer: the sum of the dt values given to update
    shiftCount,    \* observer: the number of calls of triggerShift
    enemies,       \* EnemyManager::enemies
    lastPlayerPos, \* EnemyManager::lastPlayerPos
    prevGrid,      \* observer: the grid the previous generate() call returned
    lastCall       \* observer: the last query made, its arguments and what it returned

vars == <<pc, grid, stack, wallIdx, attempts, dynamicWalls,
          shiftTimer, elapsed, shiftCount, enemies, lastPlayerPos, prevGrid,
          lastCall>>

mazeVars == <<shiftTimer, elapsed, shiftCount, prevGrid, lastCall>>
enemyVars == <<enemies, lastPlayerPos>>
genVars == <<pc, grid, stack, wallIdx, attempts, dynamicWalls>>

\* Maze(): startX = 1; startZ = 1; exitX = SIZE - 2; exitZ = SIZE - 2.
\* Nothing assigns them afterwards.
startX == 1
startZ == 1
exitX == SIZE - 2
exitZ == SIZE - 2

(***************************************************************************)
(* Maze::generate, generatePaths                                           *)
(***************************************************************************)
SetCell(g, x, z, c) == [g EXCEPT ![x][z] = c]

\* int dirs[4][2] = {{0, -2}, {2, 0}, {0, 2}, {-2, 0}}
InitialDirs == << <<0, -2>>, <<2, 0>>, <<0, 2>>, <<-2, 0>> >>

\* std::swap(dirs[i], dirs[j]) on 0-based indices
SwapDirs(d, i, j) == [d EXCEPT ![i + 1] = d[j + 1], ![j + 1] = d[i + 1]]

\* for (i = 3; i > 0; i--) { j = rand() % (i + 1); swap(dirs[i], dirs[j]); }
\* with j3, j2, j1 the three values of rand() % (i + 1)
ShuffleDirs(j3, j2, j1) ==
    SwapDirs(SwapDirs(SwapDirs(InitialDirs, 3, j3), 2, j2), 1, j1)

\* Every order the shuffle can leave dirs in, one per outcome of rand().
ShuffledDirs ==
    { ShuffleDirs(j3, j2, j1) : j3 \in 0 .. 3, j2 \in 0 .. 2, j1 \in 0 .. 1 }

\* The directions the for loop reads: the entries of the shuffled dirs.
Dirs == { d[k] : d \in ShuffledDirs, k \in 1 .. 4 }

\* An activation of generatePaths(x, z).
Frame(x, z) == [x |-> x, z |-> z]

\* A range test that lets the carve step onto the last column and row
InCarveRange_toBorder(nx, nz) == nx > 0 /\ nx < SIZE /\ nz > 0 /\ nz < SIZE

\* nx > 0 && nx < SIZE - 1 && nz > 0 && nz < SIZE - 1
InCarveRange(nx, nz) == nx > 0 /\ nx < SIZE - 1 /\ nz > 0 /\ nz < SIZE - 1

AllWalls == [x \in Coord |-> [z \in Coord |-> CELL_WALL]]

\* generate() up to its call generatePaths(1, 1), and that call's first
\* statement, grid[1][1] = CELL_EMPTY.
Generate ==
    /\ pc \in {"constructed", "ready"}
    /\ grid' = SetCell(AllWalls, 1, 1, CELL_EMPTY)
    /\ stack' = << Frame(1, 1) >>
    /\ pc' = "carve"
    /\ prevGrid' = grid
    /\ UNCHANGED <<wallIdx, attempts, dynamicWalls, shiftTimer, elapsed, shiftCount, enemyVars,
                   lastCall>>

\* A carve that opens no cell between the two: it names (x, z) again
MidCell_none(x, z, dir) == << x, z >>

\* The cell generatePaths carves between (x, z) and the cell dir steps to.
MidCell(x, z, dir) == << x + dir[1] \div 2, z + dir[2] \div 2 >>

\* if (nx > 0 && ...) if (grid[nx][nz] == CELL_WALL): the directions from
\* (x, z) that generatePaths would carve in grid g.
Carvable(g, x, z) ==
    { dir \in Dirs : /\ InCarveRange(x + dir[1], z + dir[2])
                     /\ g[x + dir[1]][z + dir[2]] = CELL_WALL }

\* generatePaths' for loop in the innermost activation, up to its next carve.
\* An iteration whose direction fails the test changes nothing, and a
\* direction the loop has already read fails the test from then on (it was out
\* of range, or its cell was no wall, or its cell has been carved since, and
\* no cell turns back into a wall while carving).  So the directions that pass
\* the test are all still ahead in dirs, in an order the shuffle left
\* arbitrary: the next carve takes any of them.  The carve calls
\* generatePaths(nx, nz), whose first statement empties (nx, nz).
CarveStep ==
    /\ pc = "carve"
    /\ stack # << >>
    /\ LET f == stack[Len(stack)]
       IN  \E dir \in Carvable(grid, f.x, f.z) :
              LET nx == f.x + dir[1]
                  nz == f.z + dir[2]
                  mid == MidCell(f.x, f.z, dir)
              IN  /\ grid' = SetCell(SetCell(grid, mid[1], mid[2], CELL_EMPTY),
                                     nx, nz, CELL_EMPTY)
                  /\ stack' = stack \o << Frame(nx, nz) >>
    /\ UNCHANGED <<pc, wallIdx, attempts, dynamicWalls, mazeVars, enemyVars>>

\* ensurePathToExit(): the walk from (x, z) to the exit, one step in x and
\* then one step in z per iteration, carving every CELL_WALL it steps on.
RECURSIVE EnsurePathFrom(_, _, _)
EnsurePathFrom(g, x, z) ==
    IF ~(x # exitX \/ z # exitZ)
    THEN g
    ELSE LET x1 == IF x < exitX THEN x + 1 ELSE IF x > exitX THEN x - 1 ELSE x
             g1 == IF x1 # x /\ g[x1][z] = CELL_WALL
                   THEN SetCell(g, x1, z, CELL_EMPTY) ELSE g
             z1 == IF z < exitZ THEN z + 1 ELSE IF z > exitZ THEN z - 1 ELSE z
             g2 == IF z1 # z /\ g1[x1][z1] = CELL_WALL
                   THEN SetCell(g1, x1, z1, CELL_EMPTY) ELSE g1
         IN  EnsurePathFrom(g2, x1, z1)

\* A repair pass that carves nothing
ensurePathToExit_none(g) == g

ensurePathToExit(g) == EnsurePathFrom(g, startX, startZ)

\* grid[startX][startZ] = CELL_START; grid[exitX][exitZ] = CELL_EXIT;
\* Marking that tags the start cell and leaves the exit cell as carved
MarkStartExit_startOnly(g) == SetCell(g, startX, startZ, CELL_START)

MarkStartExit(g) == SetCell(SetCell(g, startX, startZ, CELL_START), exitX, exitZ, CELL_EXIT)

\* The for loop of the innermost activation finds no direction left to carve
\* and generatePaths returns; when generatePaths(1, 1)
\* itself returns, generate() goes on: Start and Exit are marked, the path to
\* the exit is ensured and addDynamicWalls() starts with an empty wall list.
CarveReturn ==
    /\ pc = "carve"
    /\ stack # << >>
    /\ Carvable(grid, stack[Len(stack)].x, stack[Len(stack)].z) = {}
    /\ stack' = SubSeq(stack, 1, Len(stack) - 1)
    /\ IF Len(stack) = 1
       THEN /\ grid' = ensurePathToExit(MarkStartExit(grid))
            /\ dynamicWalls' = << >>
            /\ wallIdx' = 0
            /\ attempts' = 0
            /\ pc' = IF numDynamic > 0 THEN "walls" ELSE "ready"
       ELSE UNCHANGED <<grid, dynamicWalls, wallIdx, attempts, pc>>
    /\ UNCHANGED <<mazeVars, enemyVars>>

(***************************************************************************)
(* World coordinates, maze.h:235-242 and 378-390                           *)
(***************************************************************************)
\* cellSize = 2.0f
cellSize == 200
\* offset = Vec4(-SIZE * cellSize / 2, 0, -SIZE * cellSize / 2): its x and z
mazeOffset == 0 - (SIZE * cellSize) \div 2

\* gridToWorld(x, z), as <<x, y, z>>
gridToWorld(x, z) ==
    << mazeOffset + x * cellSize + cellSize \div 2,
       0,
       mazeOffset + z * cellSize + cellSize \div 2 >>

(***************************************************************************)
(* bezier.h: binomial, bernstein, BezierCurve::computeBernstein             *)
(***************************************************************************)
\* 1.0f of a curve parameter, of a Bernstein weight, of a wall's scale
One == 10000

\* binomial(n, k): the loop result = result * (n - i) / (i + 1), i = from .. k-1
RECURSIVE BinomialLoop(_, _, _, _)
BinomialLoop(n, k, i, result) ==
    IF i < k THEN BinomialLoop(n, k, i + 1, (result * (n - i)) \div (i + 1))
    ELSE result

\* The product of the loop of binomial without its divisions
RECURSIVE FallingProduct(_, _, _)
FallingProduct(n, k, i) == IF i < k THEN (n - i) * FallingProduct(n, k, i + 1) ELSE 1

binomial_noDivide(n, k) ==
    IF k > n THEN 0
    ELSE IF k = 0 \/ k = n THEN 1
    ELSE FallingProduct(n, k, 0)

\* The loop with the division made before the multiplication
RECURSIVE DivideFirstLoop(_, _, _, _)
DivideFirstLoop(n, k, i, result) ==
    IF i < k THEN DivideFirstLoop(n, k, i + 1, (result \div (i + 1)) * (n - i))
    ELSE result

binomial_divideFirst(n, k) ==
    IF k > n THEN 0
    ELSE IF k = 0 \/ k = n THEN 1
    ELSE DivideFirstLoop(n, k, 0, 1)

binomial(n, k) ==
    IF k > n THEN 0
    ELSE IF k = 0 \/ k = n THEN 1
    ELSE BinomialLoop(n, k, 0, 1)

\* What the loop of binomial(n, k) computes on the way: for each i the
\* product result * (n - i) and the i + 1 it is divided by
RECURSIVE BinomialSteps(_, _, _, _)
BinomialSteps(n, k, i, result) ==
    IF i < k
    THEN << [product |-> result * (n - i), divisor |-> i + 1] >>
         \o BinomialSteps(n, k, i + 1, (result * (n - i)) \div (i + 1))
    ELSE << >>

\* The products and divisors of a call binomial(n, k): none on an early return
binomialSteps(n, k) ==
    IF k > n \/ k = 0 \/ k = n THEN << >> ELSE BinomialSteps(n, k, 0, 1)

\* The largest n binomial is called with here; the curves of the program have
\* at most 7 control points (n = 6)
MaxOrder == 8

\* A pair (n, k) chosen, nothing computed yet
BinomialInputs == { [op |-> "input", n |-> n, k |-> k] : n \in 0 .. MaxOrder, k \in 0 .. MaxOrder + 2 }

\* binomial(n, k)
CallBinomial ==
    /\ lastCall.op = "input"
    /\ lastCall' = [op |-> "binomial", n |-> lastCall.n, k |-> lastCall.k,
                    steps |-> binomialSteps(lastCall.n, lastCall.k),
                    result |-> binomial(lastCall.n, lastCall.k)]
    /\ UNCHANGED <<genVars, shiftTimer, elapsed, shiftCount, prevGrid, enemyVars>>

\* pow(b, e) for 0 <= b <= 1 and an integer e >= 0, in fixed point
RECURSIVE Pow(_, _)
Pow(b, e) == IF e = 0 THEN One ELSE (Pow(b, e - 1) * b) \div One

\* bernstein(n, k, t) = binomial(n, k) * pow(1 - t, n - k) * pow(t, k)
bernstein(n, k, t) == binomial(n, k) * ((Pow(One - t, n - k) * Pow(t, k)) \div One)

\* computeBernstein(t) on the control points pts: n = size - 1 and the sum of
\* B * controlPoints[i] for i = 0 .. n, which is (0, 0, 0) for no points.
RECURSIVE BernsteinSum(_, _, _, _)
BernsteinSum(pts, t, i, c) ==
    IF i > Len(pts) - 1 THEN 0
    ELSE (bernstein(Len(pts) - 1, i, t) * pts[i + 1][c]) \div One
         + BernsteinSum(pts, t, i + 1, c)

computeBernstein(pts, t) ==
    << BernsteinSum(pts, t, 0, 1), BernsteinSum(pts, t, 0, 2), BernsteinSum(pts, t, 0, 3) >>

(***************************************************************************)
(* class DynamicWall, maze.h:39-215                                        *)
(***************************************************************************)
\* 360.0f degrees of rotationAngle
FullTurn == 3600000
\* rotationSpeed = 45.0f, slideSpeed = 0.3f, scaleSpeed = 1.0f: the
\* constructor sets them and nothing assigns them afterwards.
rotationSpeed == 4500
slideSpeed == 30
scaleSpeed == 100
\* if (stateTimer > 5.0f)
PulsePeriod == 500
\* isVisible = (scale > 0.01f); isActive = (scale > 0.5f)
VisibleAbove == 100
ActiveAbove == 5000
\* wall.position.y = 1.0f
WallY == 100

\* DynamicWall(): the fields the constructor sets and the program changes.
NewDynamicWall ==
    [ gridX |-> 0, gridZ |-> 0,
      position |-> << 0, 0, 0 >>,
      type |-> CELL_WALL,
      rotationAngle |-> 0,
      slidePath |-> << >>,
      slideT |-> 0,
      slideDirection |-> 1,
      scale |-> One,
      targetScale |-> One,
      stateTimer |-> 0,
      isVisible |-> TRUE,
      isActive |-> TRUE ]

\* setupSlidePath(start, end): the four control points, with
\* (end - start) * 0.33f and * 0.66f, and 1.0f added to and taken from z.
setupSlidePath(start, end) ==
    << start,
       << start[1] + ((end[1] - start[1]) * 33) \div 100, start[2],
          start[3] + ((end[3] - start[3]) * 33) \div 100 + 100 >>,
       << start[1] + ((end[1] - start[1]) * 66) \div 100, start[2],
          start[3] + ((end[3] - start[3]) * 66) \div 100 - 100 >>,
       end >>

\* updateRotation(deltaTime)
updateRotation(w, dt) ==
    LET a == w.rotationAngle + rotationSpeed * dt
    IN  [w EXCEPT !.rotationAngle = IF a >= FullTurn THEN a - FullTurn ELSE a]

\* A slide step that does not turn round at the far end of the path
updateSlide_noBounce(w, dt) ==
    LET t == w.slideT + slideSpeed * w.slideDirection * dt
        w1 == IF t <= 0 THEN [w EXCEPT !.slideT = 0, !.slideDirection = 1]
              ELSE [w EXCEPT !.slideT = t]
    IN  [w1 EXCEPT !.position = computeBernstein(w.slidePath,
                                                 IF t > One THEN One ELSE w1.slideT)]

\* updateSlide(deltaTime); slidePath.compute is computeBernstein
updateSlide(w, dt) ==
    LET t == w.slideT + slideSpeed * w.slideDirection * dt
        w1 == IF t >= One THEN [w EXCEPT !.slideT = One, !.slideDirection = -1]
              ELSE IF t <= 0 THEN [w EXCEPT !.slideT = 0, !.slideDirection = 1]
              ELSE [w EXCEPT !.slideT = t]
    IN  [w1 EXCEPT !.position = computeBernstein(w.slidePath, w1.slideT)]

\* A fade that sets isVisible from the scale the obstacle had before the step
updateScale_staleVisible(w, dt) ==
    LET timer == w.stateTimer + dt
        flip == timer > PulsePeriod
        target == IF flip
                  THEN (IF w.targetScale > ActiveAbove THEN 0 ELSE One)
                  ELSE w.targetScale
        up == w.scale + scaleSpeed * dt
        down == w.scale - scaleSpeed * dt
        sc == IF w.scale < target
              THEN (IF up > target THEN target ELSE up)
              ELSE IF w.scale > target
              THEN (IF down < target THEN target ELSE down)
              ELSE w.scale
    IN  [w EXCEPT !.stateTimer = IF flip THEN 0 ELSE timer,
                  !.targetScale = target,
                  !.scale = sc,
                  !.isVisible = (w.scale > VisibleAbove),
                  !.isActive = (sc > ActiveAbove)]

\* A fade that steps by scaleSpeed * deltaTime and never stops at the target
updateScale_noClamp(w, dt) ==
    LET timer == w.stateTimer + dt
        flip == timer > PulsePeriod
        target == IF flip
                  THEN (IF w.targetScale > ActiveAbove THEN 0 ELSE One)
                  ELSE w.targetScale
        sc == IF w.scale < target THEN w.scale + scaleSpeed * dt
              ELSE IF w.scale > target THEN w.scale - scaleSpeed * dt
              ELSE w.scale
    IN  [w EXCEPT !.stateTimer = IF flip THEN 0 ELSE timer,
                  !.targetScale = target,
                  !.scale = sc,
                  !.isVisible = (sc > VisibleAbove),
                  !.isActive = (sc > ActiveAbove)]

\* updateScale(deltaTime)
updateScale(w, dt) ==
    LET timer == w.stateTimer + dt
        flip == timer > PulsePeriod
        target == IF flip
                  THEN (IF w.targetScale > ActiveAbove THEN 0 ELSE One)
                  ELSE w.targetScale
        up == w.scale + scaleSpeed * dt
        down == w.scale - scaleSpeed * dt
        sc == IF w.scale < target
              THEN (IF up > target THEN target ELSE up)
              ELSE IF w.scale > target
              THEN (IF down < target THEN target ELSE down)
              ELSE w.scale
    IN  [w EXCEPT !.stateTimer = IF flip THEN 0 ELSE timer,
                  !.targetScale = target,
                  !.scale = sc,
                  !.isVisible = (sc > VisibleAbove),
                  !.isActive = (sc > ActiveAbove)]

\* DynamicWall::update(deltaTime): the switch on type
updateWall(w, dt) ==
    CASE w.type = CELL_DYNAMIC_ROTATE -> updateRotation(w, dt)
      [] w.type = CELL_DYNAMIC_SLIDE -> updateSlide(w, dt)
      [] w.type = CELL_DYNAMIC_SCALE -> updateScale(w, dt)
      [] OTHER -> w

(***************************************************************************)
(* Maze::addDynamicWalls, maze.h:325-375                                   *)
(***************************************************************************)
\* 1 + rand() % (SIZE - 2)
Interior == 1 .. (SIZE - 2)

\* The wall addDynamicWalls builds on the wall cell (x, z): typeChoice is
\* rand() % 3 and side is the rand() % 2 that picks the slide's end.
PlacedWall(x, z, typeChoice, side) ==
    LET start == << gridToWorld(x, z)[1], WallY, gridToWorld(x, z)[3] >>
        base == [NewDynamicWall EXCEPT !.gridX = x, !.gridZ = z, !.position = start]
        end == << start[1] + (IF side = 0 THEN 1 ELSE -1) * cellSize, start[2], start[3] >>
    IN  CASE typeChoice = 0 -> [base EXCEPT !.type = CELL_DYNAMIC_ROTATE]
          [] typeChoice = 1 -> [base EXCEPT !.type = CELL_DYNAMIC_SLIDE,
                                            !.slidePath = setupSlidePath(start, end)]
          [] typeChoice = 2 -> [base EXCEPT !.type = CELL_DYNAMIC_SCALE]

\* An attempt loop that never gives a wall up: after MaxAttempts misses it
\* starts counting again for the same wall
AddWallAttempt_noGiveUp ==
    /\ pc = "walls"
    /\ \E x \in Interior, z \in Interior :
          IF grid[x][z] = CELL_WALL
          THEN \E typeChoice \in 0 .. 2, side \in 0 .. 1 :
                  LET w == PlacedWall(x, z, typeChoice, side)
                  IN  /\ grid' = SetCell(grid, x, z, w.type)
                      /\ dynamicWalls' = Append(dynamicWalls, w)
                      /\ wallIdx' = wallIdx + 1
                      /\ attempts' = 0
                      /\ pc' = IF wallIdx + 1 < numDynamic THEN "walls" ELSE "ready"
          ELSE /\ UNCHANGED <<grid, dynamicWalls, wallIdx, pc>>
               /\ attempts' = IF attempts + 1 < MaxAttempts THEN attempts + 1 ELSE 0
    /\ UNCHANGED <<stack, mazeVars, enemyVars>>

\* One attempt of addDynamicWalls' while loop for wall number wallIdx: a
\* random interior cell, taken if it is a wall.  The for loop moves to the
\* next wall after a placement or after MaxAttempts misses, and generate()
\* returns after the last one.
AddWallAttempt ==
    /\ pc = "walls"
    /\ \E x \in Interior, z \in Interior :
          IF grid[x][z] = CELL_WALL
          THEN \E typeChoice \in 0 .. 2, side \in 0 .. 1 :
                  LET w == PlacedWall(x, z, typeChoice, side)
                  IN  /\ grid' = SetCell(grid, x, z, w.type)
                      /\ dynamicWalls' = Append(dynamicWalls, w)
                      /\ wallIdx' = wallIdx + 1
                      /\ attempts' = 0
                      /\ pc' = IF wallIdx + 1 < numDynamic THEN "walls" ELSE "ready"
          ELSE /\ UNCHANGED <<grid, dynamicWalls>>
               /\ IF attempts + 1 < MaxAttempts
                  THEN /\ attempts' = attempts + 1
                       /\ UNCHANGED <<wallIdx, pc>>
                  ELSE /\ attempts' = 0
                       /\ wallIdx' = wallIdx + 1
                       /\ pc' = IF wallIdx + 1 < numDynamic THEN "walls" ELSE "ready"
    /\ UNCHANGED <<stack, mazeVars, enemyVars>>

(***************************************************************************)
(* Maze::update and Maze::triggerShift, maze.h:407-459                     *)
(***************************************************************************)
\* shiftInterval = 30.0f
shiftInterval == 3000

\* A loop body that resets the timer and the slide and leaves the angle
ShiftWall_keepAngle(w, r1, r2) ==
    LET reset == [w EXCEPT !.stateTimer = 0, !.slideT = 0, !.slideDirection = 1]
    IN  IF r1 = 0
        THEN [reset EXCEPT !.type = CASE r2 = 0 -> CELL_DYNAMIC_ROTATE
                                      [] r2 = 1 -> CELL_DYNAMIC_SLIDE
                                      [] r2 = 2 -> CELL_DYNAMIC_SCALE]
        ELSE reset

\* triggerShift's loop body for one wall: r1 is the rand() % 3 of the test and
\* r2 the rand() % 3 that picks the new type.
ShiftWall(w, r1, r2) ==
    LET reset == [w EXCEPT !.stateTimer = 0, !.rotationAngle = 0,
                           !.slideT = 0, !.slideDirection = 1]
    IN  IF r1 = 0
        THEN [reset EXCEPT !.type = CASE r2 = 0 -> CELL_DYNAMIC_ROTATE
                                      [] r2 = 1 -> CELL_DYNAMIC_SLIDE
                                      [] r2 = 2 -> CELL_DYNAMIC_SCALE]
        ELSE reset

\* The wall triggerShift adds on cell (x, z).
SpawnedWall(x, z) ==
    [NewDynamicWall EXCEPT !.gridX = x, !.gridZ = z,
                           !.position = << gridToWorld(x, z)[1], WallY, gridToWorld(x, z)[3] >>,
                           !.type = CELL_DYNAMIC_SCALE,
                           !.scale = 0, !.targetScale = One]

\* A second part that does not look at the cell's tag
SpawnAt_anyCell(g, walls, x, z, coin) ==
    IF /\ (x # startX \/ z # startZ)
       /\ (x # exitX \/ z # exitZ)
       /\ coin = 0
    THEN Append(walls, SpawnedWall(x, z))
    ELSE walls

\* triggerShift's second part: (x, z) is the random interior cell and coin the
\* rand() % 2 of "maybe add a temporary wall".
SpawnAt(g, walls, x, z, coin) ==
    IF /\ g[x][z] = CELL_EMPTY
       /\ (x # startX \/ z # startZ)
       /\ (x # exitX \/ z # exitZ)
       /\ coin = 0
    THEN Append(walls, SpawnedWall(x, z))
    ELSE walls

\* triggerShift() on the walls, with rs[i] = <<r1, r2>> for wall i
triggerShift(g, walls, rs, x, z, coin) ==
    SpawnAt(g, [i \in 1 .. Len(walls) |-> ShiftWall(walls[i], rs[i][1], rs[i][2])],
            x, z, coin)

\* The outcomes <<r1, r2>> of a wall's two rand() % 3 in triggerShift: r2 is
\* drawn only when r1 = 0, and r1 = 1 stands for both non-zero values.
ShiftDraws == { <<0, 0>>, <<0, 1>>, <<0, 2>>, <<1, 0>> }

\* Every wall list triggerShift can leave, one per outcome of its rand() calls.
ShiftOutcomes(g, walls) ==
    { triggerShift(g, walls, rs, x, z, coin) :
        rs \in [1 .. Len(walls) -> ShiftDraws],
        x \in Interior, z \in Interior, coin \in 0 .. 1 }

\* The values of deltaTime the model feeds to update.
DtSet == {500, 1000}
\* The play time the model follows.
MaxTime == 4000

\* An update that shifts only once the timer has passed the interval
MazeUpdate_strict(dt) ==
    LET updated == [i \in 1 .. Len(dynamicWalls) |-> updateWall(dynamicWalls[i], dt)]
    IN  /\ IF shiftTimer + dt > shiftInterval
           THEN /\ shiftTimer' = 0
                /\ shiftCount' = shiftCount + 1
                /\ dynamicWalls' \in ShiftOutcomes(grid, updated)
           ELSE /\ shiftTimer' = shiftTimer + dt
                /\ shiftCount' = shiftCount
                /\ dynamicWalls' = updated
        /\ UNCHANGED <<pc, grid, stack, wallIdx, attempts, prevGrid, lastCall>>

\* An update whose shift tags the cell of every obstacle it spawned
MazeUpdate_retag(dt) ==
    LET updated == [i \in 1 .. Len(dynamicWalls) |-> updateWall(dynamicWalls[i], dt)]
    IN  /\ IF shiftTimer + dt >= shiftInterval
           THEN /\ shiftTimer' = 0
                /\ shiftCount' = shiftCount + 1
                /\ dynamicWalls' \in ShiftOutcomes(grid, updated)
           ELSE /\ shiftTimer' = shiftTimer + dt
                /\ shiftCount' = shiftCount
                /\ dynamicWalls' = updated
        /\ grid' = [x \in Coord |-> [z \in Coord |->
                       IF /\ grid[x][z] = CELL_EMPTY
                          /\ \E i \in 1 .. Len(dynamicWalls') :
                                dynamicWalls'[i].gridX = x /\ dynamicWalls'[i].gridZ = z
                       THEN CELL_DYNAMIC_SCALE
                       ELSE grid[x][z]]]
        /\ UNCHANGED <<pc, stack, wallIdx, attempts, prevGrid, lastCall>>

\* Maze::update(deltaTime)
MazeUpdate(dt) ==
    LET updated == [i \in 1 .. Len(dynamicWalls) |-> updateWall(dynamicWalls[i], dt)]
    IN  /\ IF shiftTimer + dt >= shiftInterval
           THEN /\ shiftTimer' = 0
                /\ shiftCount' = shiftCount + 1
                /\ dynamicWalls' \in ShiftOutcomes(grid, updated)
           ELSE /\ shiftTimer' = shiftTimer + dt
                /\ shiftCount' = shiftCount
                /\ dynamicWalls' = updated
        /\ UNCHANGED <<pc, grid, stack, wallIdx, attempts, prevGrid, lastCall>>

\* a / b of C for b > 0: the quotient rounded toward zero, as (int) rounds
Quot(a, b) == IF a >= 0 THEN a \div b ELSE 0 - ((0 - a) \div b)

\* A conversion that leaves the maze offset out
worldToGrid_noOffset(pos) == << Quot(pos[1], cellSize), Quot(pos[3], cellSize) >>

\* worldToGrid(worldPos, x, z)
worldToGrid(pos) == << Quot(pos[1] - mazeOffset, cellSize), Quot(pos[3] - mazeOffset, cellSize) >>

\* Tags that count as static walls only: none of the dynamic ones
BlockingTags_dynamicOnly == { CELL_DYNAMIC_ROTATE, CELL_DYNAMIC_SLIDE, CELL_DYNAMIC_SCALE }

\* The tags checkCollision tests a cell for
BlockingTags == { CELL_WALL, CELL_DYNAMIC_ROTATE, CELL_DYNAMIC_SLIDE, CELL_DYNAMIC_SCALE }

\* halfCell = cellSize / 2 - 0.1f
halfCell == cellSize \div 2 - 10

\* The loop over dynamicWalls in checkCollision: blocked starts true and takes
\* isActive of the first wall anchored at (x, z)
Blocked(walls, x, z) ==
    LET at == { i \in 1 .. Len(walls) : walls[i].gridX = x /\ walls[i].gridZ = z }
    IN  IF at = { } THEN TRUE
        ELSE walls[CHOOSE i \in at : \A j \in at : i <= j].isActive

\* checkCollision(pos, radius)
checkCollision(g, walls, pos, radius) ==
    LET gc == worldToGrid(pos)
    IN  \E dx \in -1 .. 1, dz \in -1 .. 1 :
           LET x == gc[1] + dx
               z == gc[2] + dz
               wallPos == gridToWorld(x, z)
           IN  /\ x >= 0 /\ x < SIZE /\ z >= 0 /\ z < SIZE
               /\ g[x][z] \in BlockingTags
               /\ pos[1] + radius > wallPos[1] - halfCell
               /\ pos[1] - radius < wallPos[1] + halfCell
               /\ pos[3] + radius > wallPos[3] - halfCell
               /\ pos[3] - radius < wallPos[3] + halfCell
               /\ Blocked(walls, x, z)

\* checkExit(pos)
checkExit(pos) == worldToGrid(pos) = << exitX, exitZ >>

\* A lookup that takes the outside of the grid for open floor
getCell_openOutside(g, x, z) ==
    IF x >= 0 /\ x < SIZE /\ z >= 0 /\ z < SIZE THEN g[x][z] ELSE CELL_EMPTY

\* getCell(x, z)
getCell(g, x, z) ==
    IF x >= 0 /\ x < SIZE /\ z >= 0 /\ z < SIZE THEN g[x][z] ELSE CELL_WALL

(***************************************************************************)
(* Queries on a generated maze.  They are const member functions: each     *)
(* leaves the maze as it is, and the observer lastCall keeps what was      *)
(* asked and what came back.                                               *)
(***************************************************************************)
\* Every variable but lastCall
allButLastCall == <<genVars, shiftTimer, elapsed, shiftCount, prevGrid, enemyVars>>

\* worldToGrid(gridToWorld(col, row), x, z)
CallRoundTrip ==
    /\ pc = "ready"
    /\ \E col \in Coord, row \in Coord :
          lastCall' = [op |-> "worldToGrid", col |-> col, row |-> row,
                       result |-> worldToGrid(gridToWorld(col, row))]
    /\ UNCHANGED allButLastCall

\* getCell(x, z) for x and z among cs
CallGetCellIn(cs) ==
    /\ pc \in {"ready", "playing"}
    /\ \E x \in cs, z \in cs :
          lastCall' = [op |-> "getCell", x |-> x, z |-> z, result |-> getCell(grid, x, z)]
    /\ UNCHANGED allButLastCall

\* getCell for every coordinate inside the grid and just outside it
CallGetCell == CallGetCellIn(-1 .. SIZE)

\* getCell during play, outside the grid and at the exit
ProbeGetCell == CallGetCellIn({-1, exitX})

\* Places the player stands at when the frame asks the maze about them: the
\* start cell, the exit cell and the corner wall, at eye height
ProbeSpots == { << gridToWorld(startX, startZ)[1], 150, gridToWorld(startX, startZ)[3] >>,
                << gridToWorld(exitX, exitZ)[1], 150, gridToWorld(exitX, exitZ)[3] >>,
                << gridToWorld(0, 0)[1], 150, gridToWorld(0, 0)[3] >> }

\* maze.checkCollision(camera.position, PLAYER_RADIUS) of the frame
CallCheckCollision ==
    /\ pc \in {"ready", "playing"}
    /\ \E pos \in ProbeSpots :
          lastCall' = [op |-> "checkCollision", pos |-> pos,
                       result |-> checkCollision(grid, dynamicWalls, pos, 30)]
    /\ UNCHANGED allButLastCall

\* maze.checkExit(camera.position) of the frame
CallCheckExit ==
    /\ pc \in {"ready", "playing"}
    /\ \E pos \in ProbeSpots :
          lastCall' = [op |-> "checkExit", pos |-> pos, result |-> checkExit(pos)]
    /\ UNCHANGED allButLastCall

(***************************************************************************)
(* The two curve evaluations of bezier.h on their own, computed exactly.   *)
(* The parameter is t = a / TSteps for a in 0 .. TSteps, control points    *)
(* have integer coordinates, and a returned coordinate is an integer       *)
(* number of 1 / Scale, where Scale = TSteps ^ (MaxPoints - 1): with at    *)
(* most MaxPoints control points every product and every interpolation of  *)
(* both algorithms is then an integer, and nothing is rounded.             *)
(***************************************************************************)
TSteps == 4
MaxPoints == 6

RECURSIVE PowerLoop(_, _)
PowerLoop(b, e) == IF e = 0 THEN 1 ELSE b * PowerLoop(b, e - 1)

\* A power that takes 0 to the 0 for 0
IntPow_zeroBase(b, e) == IF b = 0 THEN 0 ELSE PowerLoop(b, e)

\* pow(b, e) for an integer e >= 0; pow(0, 0) is 1
IntPow(b, e) == PowerLoop(b, e)

Scale == IntPow(TSteps, MaxPoints - 1)

\* bernstein(n, k, t) at t = a / TSteps, as a number of 1 / TSteps ^ n
bernsteinExact(n, k, a) == binomial(n, k) * IntPow(TSteps - a, n - k) * IntPow(a, k)

\* The loop of computeBernstein for one coordinate c, from index i on
RECURSIVE BernsteinSumExact(_, _, _, _)
BernsteinSumExact(pts, a, i, c) ==
    LET n == Len(pts) - 1
    IN  IF i > n THEN 0
        ELSE bernsteinExact(n, i, a) * pts[i + 1][c] * (Scale \div IntPow(TSteps, n))
             + BernsteinSumExact(pts, a, i + 1, c)

\* BezierCurve::computeBernstein(t): n = size - 1, result (0, 0, 0) and the loop
\* for i = 0 .. n, which does not run for no points
computeBernsteinExact(pts, a) ==
    << BernsteinSumExact(pts, a, 0, 1), BernsteinSumExact(pts, a, 0, 2),
       BernsteinSumExact(pts, a, 0, 3) >>

\* One pass of the inner loop of DeCasteljau::compute: points[i] = (1 - t) *
\* points[i] + t * points[i + 1] for i = 0 .. n - r - 1; the points past the
\* last one written are not read again and are dropped
Interpolate(points, a) ==
    [i \in 1 .. (Len(points) - 1) |->
        [c \in 1 .. 3 |-> ((TSteps - a) * points[i][c] + a * points[i + 1][c]) \div TSteps]]

\* The outer loop of DeCasteljau::compute, r = 1 .. n - 1
RECURSIVE CasteljauLoop(_, _)
CasteljauLoop(points, a) ==
    IF Len(points) <= 1 THEN points ELSE CasteljauLoop(Interpolate(points, a), a)

\* DeCasteljau::compute(controlPoints, t) for at least one control point: points[0]
computeCasteljauExact(pts, a) ==
    CasteljauLoop([i \in 1 .. Len(pts) |-> [c \in 1 .. 3 |-> pts[i][c] * Scale]], a)[1]

\* Coordinates of the control points tried
PointChoices == { << 0, 0, 0 >>, << 2, 1, -3 >>, << -5, 4, 7 >> }

\* The control polygons tried: none up to MaxPoints points
Polygons == UNION { [1 .. n -> PointChoices] : n \in 0 .. MaxPoints }

Returned(point) == [status |-> "returned", point |-> point]

\* What DeCasteljau::compute can do for no control points: it returns points[0]
\* of an empty vector, which is undefined; the call crashes or returns whatever
\* is read
CasteljauOfNothing ==
    { [status |-> "crashed"] } \cup { Returned(<< p[1] * Scale, p[2] * Scale, p[3] * Scale >>) : p \in PointChoices }

\* The curve and the parameter of an evaluation about to be made
CurveInputs == { [op |-> "input", pts |-> pts, a |-> a] : pts \in Polygons, a \in 0 .. TSteps }

\* curve.computeBernstein(t)
CallComputeBernstein ==
    /\ lastCall.op = "input"
    /\ lastCall' = [op |-> "computeBernstein", pts |-> lastCall.pts, a |-> lastCall.a,
                    result |-> Returned(computeBernsteinExact(lastCall.pts, lastCall.a))]
    /\ UNCHANGED allButLastCall

\* curve.computeCasteljau(t)
CallComputeCasteljau ==
    /\ lastCall.op = "input"
    /\ \E res \in (IF lastCall.pts = << >> THEN CasteljauOfNothing
                     ELSE { Returned(computeCasteljauExact(lastCall.pts, lastCall.a)) }) :
          lastCall' = [op |-> "computeCasteljau", pts |-> lastCall.pts, a |-> lastCall.a,
                       result |-> res]
    /\ UNCHANGED allButLastCall

NextCurve == CallComputeBernstein \/ CallComputeCasteljau

(***************************************************************************)
(* class Enemy and class EnemyManager, enemy.h.  ENEMY_GUARD is left out:   *)
(* nothing in the program calls addGuardEnemy or setupGuardEnemy.          *)
(***************************************************************************)
\* 2.0f * M_PI of pulsePhase
TwoPi == 62832
\* 360.0f degrees of rotationY, whose rate is 45.0f degrees per second
EnemyFullTurn == 3600000
\* height = 0.5f, the default of the setup functions
EnemyHeight == 50

\* Enemy()
NewEnemy ==
    [ position |-> << 0, 50, 0 >>,
      startPosition |-> << 0, 50, 0 >>,
      targetPosition |-> << 0, 50, 0 >>,
      radius |-> 40,
      path |-> << >>,
      pathT |-> 0,
      speed |-> 15,
      baseSpeed |-> 15,
      direction |-> 1,
      isAlive |-> TRUE,
      type |-> "ENEMY_PATROL",
      detectionRange |-> 800,
      chaseRange |-> 500,
      isChasing |-> FALSE,
      pulsePhase |-> 0,
      rotationY |-> 0 ]

\* setupPath(start, end, height): 0.25f and 0.75f of the way, 0.5f to and from
\* z, 0.3f and 0.2f added to the height
setupPath(e, start, end) ==
    LET p0 == << start[1], EnemyHeight, start[3] >>
        p1 == << start[1] + ((end[1] - start[1]) * 25) \div 100, EnemyHeight + 30,
                 start[3] + ((end[3] - start[3]) * 25) \div 100 + 50 >>
        p2 == << start[1] + ((end[1] - start[1]) * 75) \div 100, EnemyHeight + 20,
                 start[3] + ((end[3] - start[3]) * 75) \div 100 - 50 >>
        p3 == << end[1], EnemyHeight, end[3] >>
    IN  [e EXCEPT !.path = << p0, p1, p2, p3 >>, !.startPosition = p0, !.position = p0]

\* setupCircularPath(center, pathRadius, height): k = 0.5523f
setupCircularPath(e, center, pathRadius) ==
    LET rk == (pathRadius * 5523) \div 10000
        h == EnemyHeight
        p0 == << center[1] + pathRadius, h, center[3] >>
    IN  [e EXCEPT !.path = << p0,
                             << center[1] + pathRadius, h, center[3] + rk >>,
                             << center[1] + rk, h, center[3] + pathRadius >>,
                             << center[1], h, center[3] + pathRadius >>,
                             << center[1] - rk, h, center[3] + pathRadius >>,
                             << center[1] - pathRadius, h, center[3] + rk >>,
                             << center[1] - pathRadius, h, center[3] >> >>,
                  !.startPosition = p0, !.position = p0,
                  !.type = "ENEMY_CIRCULAR"]

\* setupChaseEnemy(startPos, height)
setupChaseEnemy(e, startPos) ==
    LET p == << startPos[1], EnemyHeight, startPos[3] >>
    IN  [e EXCEPT !.position = p, !.startPosition = p, !.type = "ENEMY_CHASE",
                  !.speed = 12, !.baseSpeed = 12, !.detectionRange = 1000]

\* updatePatrol(deltaTime)
updatePatrol(e, dt) ==
    LET t == e.pathT + e.speed * e.direction * dt
        e1 == IF t >= One THEN [e EXCEPT !.pathT = One, !.direction = -1]
              ELSE IF t <= 0 THEN [e EXCEPT !.pathT = 0, !.direction = 1]
              ELSE [e EXCEPT !.pathT = t]
    IN  [e1 EXCEPT !.position = computeBernstein(e.path, e1.pathT)]

\* The integer part of sqrt(n), by bisection between lo and hi
RECURSIVE SqrtBetween(_, _, _)
SqrtBetween(n, lo, hi) ==
    IF lo >= hi THEN lo
    ELSE LET mid == (lo + hi + 1) \div 2
         IN  IF mid * mid <= n THEN SqrtBetween(n, mid, hi)
             ELSE SqrtBetween(n, lo, mid - 1)

Sqrt(n) == SqrtBetween(n, 0, 40000)

\* dist < range for dist = sqrt(d2), both sides being non-negative
SqrtBelow(d2, range) == d2 < range * range

\* distanceTo(pos) squared: dx * dx + dy * dy + dz * dz
distanceTo2(e, pos) ==
    (e.position[1] - pos[1]) * (e.position[1] - pos[1])
    + (e.position[2] - pos[2]) * (e.position[2] - pos[2])
    + (e.position[3] - pos[3]) * (e.position[3] - pos[3])

\* The step toward (or away from) a point: position.x += dir.x / len * speed *
\* deltaTime * factor, and the same in z, when len > minLen.
SteerTo(e, target, dt, factor, minLen) ==
    LET dx == target[1] - e.position[1]
        dz == target[3] - e.position[3]
        len == Sqrt(dx * dx + dz * dz)
        step == e.speed * dt * factor
    IN  IF len > minLen
        THEN [e EXCEPT !.position = << e.position[1] + Quot(dx * step, len * 100),
                                       e.position[2],
                                       e.position[3] + Quot(dz * step, len * 100) >>]
        ELSE e

\* The marker of a null playerPos
NoPlayer == << >>

\* updateChase(deltaTime, playerPos)
updateChase(e, dt, playerPos) ==
    IF playerPos = NoPlayer
    THEN updatePatrol(e, dt)
    ELSE IF SqrtBelow(distanceTo2(e, playerPos), e.detectionRange)
         THEN SteerTo([e EXCEPT !.isChasing = TRUE, !.targetPosition = playerPos],
                      playerPos, dt, 5, 1)
         ELSE SteerTo([e EXCEPT !.isChasing = FALSE], e.startPosition, dt, 3, 50)

\* Enemy::update(deltaTime, playerPos)
updateEnemy(e, dt, playerPos) ==
    IF ~e.isAlive THEN e
    ELSE LET ph == e.pulsePhase + 300 * dt
             ry == e.rotationY + 4500 * dt
             e1 == [e EXCEPT !.pulsePhase = IF ph >= TwoPi THEN ph - TwoPi ELSE ph,
                             !.rotationY = IF ry >= EnemyFullTurn THEN ry - EnemyFullTurn
                                           ELSE ry]
         IN  CASE e1.type \in {"ENEMY_PATROL", "ENEMY_CIRCULAR"} -> updatePatrol(e1, dt)
               [] e1.type = "ENEMY_CHASE" -> updateChase(e1, dt, playerPos)

\* EnemyManager::update(deltaTime, playerPos) and update(deltaTime)
EnemiesUpdate(dt, playerPos) ==
    /\ enemies' = [i \in 1 .. Len(enemies) |-> updateEnemy(enemies[i], dt, playerPos)]
    /\ lastPlayerPos' = IF playerPos = NoPlayer THEN lastPlayerPos ELSE playerPos

(***************************************************************************)
(* The program, main.cpp: initMaze() and the playing branch of update().   *)
(***************************************************************************)
\* Appending one enemy: enemies.push_back(enemy)
addEnemy(es, start, end) == Append(es, setupPath(NewEnemy, start, end))
addCircularEnemy(es, center, r) == Append(es, setupCircularPath(NewEnemy, center, r))
addChaseEnemy(es, startPos) == Append(es, setupChaseEnemy(NewEnemy, startPos))

\* initMaze() after maze.generate(): enemies.clear() and the three enemies
InitEnemies ==
    /\ pc = "ready"
    /\ enemies' = addCircularEnemy(
                     addEnemy(addEnemy(<< >>, gridToWorld(3, 3), gridToWorld(5, 3)),
                              gridToWorld(7, 7), gridToWorld(7, 5)),
                     gridToWorld(5, 5), 150)
    /\ pc' = "playing"
    /\ UNCHANGED <<grid, stack, wallIdx, attempts, dynamicWalls, mazeVars, lastPlayerPos>>

\* update() while playing: maze.update(deltaTime); enemies.update(deltaTime)
UpdateBy(dt) ==
    /\ pc = "playing"
    /\ elapsed' = elapsed + dt
    /\ MazeUpdate(dt)
    /\ EnemiesUpdate(dt, NoPlayer)

Tick == \E dt \in DtSet : elapsed + dt <= MaxTime /\ UpdateBy(dt)

\* The same update with long frames, for a short while
LongDtSet == {2000}
MaxLongTime == 6000

LongTick == \E dt \in LongDtSet : elapsed + dt <= MaxLongTime /\ UpdateBy(dt)

\* The same update with frames of 0.6 s, short enough for a fade to take
\* more than one of them, until just after the first shift
FineDtSet == {60}
MaxFineTime == 3180

FineTick == \E dt \in FineDtSet : elapsed + dt <= MaxFineTime /\ UpdateBy(dt)

\* The same update with frames of a whole shift interval, so that every one
\* of them shifts the maze
ShiftDtSet == {3000}
MaxShiftTime == 6000

ShiftTick == \E dt \in ShiftDtSet : elapsed + dt <= MaxShiftTime /\ UpdateBy(dt)

(***************************************************************************)
(* update() while playing, statement by statement: main.cpp:660-702.       *)
(* lastCall is the log of the frame: the statement that ran last, the      *)
(* frame's deltaTime and how many times each manager has been updated.     *)
(***************************************************************************)
\* The two updates in the order update() makes them
updateOrder_enemiesFirst == << "enemies.update", "maze.update" >>

updateOrder == << "maze.update", "enemies.update" >>

\* The log before the first frame
FrameLog ==
    IF lastCall.op = "none"
    THEN [op |-> "none", deltaTime |-> 0, mazeUpdates |-> 0, enemyUpdates |-> 0]
    ELSE lastCall

\* The update statement update() is about to make, and where it is after it
StatementAt ==
    CASE pc = "update1" -> updateOrder[1]
      [] pc = "update2" -> updateOrder[2]
      [] OTHER -> "none"

AfterStatement == IF pc = "update1" THEN "update2" ELSE "playing"

\* update() is entered: deltaTime = currentTime - lastTime
FrameBegin ==
    /\ pc = "playing"
    /\ \E dt \in LongDtSet :
          /\ elapsed + dt <= MaxLongTime
          /\ lastCall' = [FrameLog EXCEPT !.op = "update", !.deltaTime = dt]
    /\ pc' = "update1"
    /\ UNCHANGED <<grid, stack, wallIdx, attempts, dynamicWalls, shiftTimer, elapsed,
                   shiftCount, prevGrid, enemyVars>>

\* maze.update(deltaTime)
FrameMazeUpdate ==
    /\ StatementAt = "maze.update"
    /\ LET dt == lastCall.deltaTime
           updated == [i \in 1 .. Len(dynamicWalls) |-> updateWall(dynamicWalls[i], dt)]
       IN  /\ elapsed' = elapsed + dt
           /\ IF shiftTimer + dt >= shiftInterval
              THEN /\ shiftTimer' = 0
                   /\ shiftCount' = shiftCount + 1
                   /\ dynamicWalls' \in ShiftOutcomes(grid, updated)
              ELSE /\ shiftTimer' = shiftTimer + dt
                   /\ shiftCount' = shiftCount
                   /\ dynamicWalls' = updated
    /\ lastCall' = [lastCall EXCEPT !.op = "maze.update", !.mazeUpdates = @ + 1]
    /\ pc' = AfterStatement
    /\ UNCHANGED <<grid, stack, wallIdx, attempts, prevGrid, enemyVars>>

\* enemies.update(deltaTime)
FrameEnemiesUpdate ==
    /\ StatementAt = "enemies.update"
    /\ EnemiesUpdate(lastCall.deltaTime, NoPlayer)
    /\ lastCall' = [lastCall EXCEPT !.op = "enemies.update", !.enemyUpdates = @ + 1]
    /\ pc' = AfterStatement
    /\ UNCHANGED <<grid, stack, wallIdx, attempts, dynamicWalls, shiftTimer, elapsed,
                   shiftCount, prevGrid>>

(***************************************************************************)
(* The EnemyManager on its own, driven through its public operations with  *)
(* a player position, as Game::update does (game.h).                       *)
(***************************************************************************)
MaxEnemies == 2
MaxEnemyTime == 2000

\* Places enemies are put at, and places the player's eye is at (eye height
\* 1.5f, or level with the enemy)
EnemySpots == { gridToWorld(1, 1), gridToWorld(3, 3) }
PlayerSpots == { << gridToWorld(1, 1)[1] + 996, 150, gridToWorld(1, 1)[3] >>,
                 << gridToWorld(1, 1)[1], 50, gridToWorld(1, 1)[3] + 996 >>,
                 << gridToWorld(1, 1)[1] + 200, 150, gridToWorld(1, 1)[3] >>,
                 << gridToWorld(3, 3)[1] + 1200, 150, gridToWorld(3, 3)[3] + 1200 >> }

AddEnemy ==
    /\ Len(enemies) < MaxEnemies
    /\ \E start \in EnemySpots, end \in EnemySpots :
          /\ start # end
          /\ enemies' = addEnemy(enemies, start, end)
    /\ UNCHANGED <<genVars, mazeVars, lastPlayerPos>>

AddCircularEnemy ==
    /\ Len(enemies) < MaxEnemies
    /\ \E center \in EnemySpots : enemies' = addCircularEnemy(enemies, center, 150)
    /\ UNCHANGED <<genVars, mazeVars, lastPlayerPos>>

AddChaseEnemy ==
    /\ Len(enemies) < MaxEnemies
    /\ \E startPos \in EnemySpots : enemies' = addChaseEnemy(enemies, startPos)
    /\ UNCHANGED <<genVars, mazeVars, lastPlayerPos>>

\* EnemyManager::update(deltaTime, playerPos)
UpdateWithPlayer(dt, playerPos) ==
    /\ elapsed + dt <= MaxEnemyTime
    /\ elapsed' = elapsed + dt
    /\ EnemiesUpdate(dt, playerPos)
    /\ UNCHANGED <<genVars, shiftTimer, shiftCount, prevGrid, lastCall>>

EnemyTick ==
    /\ enemies # << >>
    /\ \E dt \in DtSet, playerPos \in PlayerSpots : UpdateWithPlayer(dt, playerPos)

NextEnemy == AddEnemy \/ AddCircularEnemy \/ AddChaseEnemy \/ EnemyTick

InitMaze ==
    /\ pc = "constructed"
    /\ grid = [x \in Coord |-> [z \in Coord |-> CELL_INDETERMINATE]]
    /\ stack = << >>
    /\ wallIdx = 0
    /\ attempts = 0
    /\ dynamicWalls = << >>
    /\ shiftTimer = 0
    /\ elapsed = 0
    /\ shiftCount = 0
    /\ enemies = << >>
    /\ lastPlayerPos = << 0, 0, 0 >>
    /\ prevGrid = [x \in Coord |-> [z \in Coord |-> CELL_INDETERMINATE]]

Init == InitMaze /\ lastCall = [op |-> "none"]

\* A curve and a parameter chosen, nothing evaluated yet
InitCurve == InitMaze /\ lastCall \in CurveInputs

SpecEnemy == Init /\ [][NextEnemy]_vars

\* generate() on a new maze, and nothing after it.
NextGen ==
    \/ (pc = "constructed" /\ Generate)
    \/ CarveStep
    \/ CarveReturn
    \/ AddWallAttempt

SpecGen == Init /\ [][NextGen]_vars

\* generate() called again and again on one maze.
NextRegen == Generate \/ CarveStep \/ CarveReturn \/ AddWallAttempt

SpecRegen == Init /\ [][NextRegen]_vars

\* Curve evaluations, on any of the polygons.
SpecCurve == InitCurve /\ [][NextCurve]_vars

\* Calls of binomial, on any n and k up to MaxOrder and a little past n.
InitBinomial == InitMaze /\ lastCall \in BinomialInputs

SpecBinomial == InitBinomial /\ [][CallBinomial]_vars

\* generate() on a new maze, then a query.  Nothing changes the maze once it
\* is generated here, so a second query would find what a first one finds.
NextQuery ==
    \/ (pc = "constructed" /\ Generate)
    \/ CarveStep
    \/ CarveReturn
    \/ AddWallAttempt
    \/ (lastCall.op = "none" /\ CallRoundTrip)
    \/ (lastCall.op = "none" /\ CallGetCell)

SpecQuery == Init /\ [][NextQuery]_vars

\* generate() is sequential code: once called it runs to its end.
SpecGenFair == SpecGen /\ WF_vars(NextGen)

\* What the caller of generate() gets back: generate() and addDynamicWalls()
\* are void and write no status; a wall that found no cell is just missing
generateResult == "void"

\* One maze played in long frames, with the queries the frame makes.
NextLong ==
    \/ (pc = "constructed" /\ Generate)
    \/ CarveStep
    \/ CarveReturn
    \/ AddWallAttempt
    \/ InitEnemies
    \/ LongTick
    \/ CallCheckCollision
    \/ CallCheckExit
    \/ ProbeGetCell

SpecLong == Init /\ [][NextLong]_vars

\* One maze played in short frames.
NextPulse ==
    \/ (pc = "constructed" /\ Generate)
    \/ CarveStep
    \/ CarveReturn
    \/ AddWallAttempt
    \/ InitEnemies
    \/ FineTick

SpecPulse == Init /\ [][NextPulse]_vars

\* One maze played frame by frame, a statement of update() at a time.
NextFrame ==
    \/ (pc = "constructed" /\ Generate)
    \/ CarveStep
    \/ CarveReturn
    \/ AddWallAttempt
    \/ InitEnemies
    \/ FrameBegin
    \/ FrameMazeUpdate
    \/ FrameEnemiesUpdate

SpecFrame == Init /\ [][NextFrame]_vars

\* One maze played through its first shifts.
NextShift ==
    \/ (pc = "constructed" /\ Generate)
    \/ CarveStep
    \/ CarveReturn
    \/ AddWallAttempt
    \/ InitEnemies
    \/ ShiftTick

SpecShift == Init /\ [][NextShift]_vars

\* One maze: construction, generate() once, then play.
Next ==
    \/ (pc = "constructed" /\ Generate)
    \/ CarveStep
    \/ CarveReturn
    \/ AddWallAttempt
    \/ InitEnemies
    \/ Tick

Spec == Init /\ [][Next]_vars

(***************************************************************************)
(* Properties.                                                             *)
(***************************************************************************)
\* const float PLAYER_RADIUS = 0.3f
PLAYER_RADIUS == 30

\* generate() has returned
Generated == pc \in {"ready", "playing"}

Cells == Coord \X Coord

\* The cells tagged Empty, Start or Exit
Open(g) == { c \in Cells : g[c[1]][c[2]] \in {CELL_EMPTY, CELL_START, CELL_EXIT} }

Adjacent(a, b) ==
    \/ (a[1] = b[1] /\ (a[2] = b[2] + 1 \/ b[2] = a[2] + 1))
    \/ (a[2] = b[2] /\ (a[1] = b[1] + 1 \/ b[1] = a[1] + 1))

\* The open cells reached from the set S by 4-adjacent steps through open cells
RECURSIVE ReachableFrom(_, _)
ReachableFrom(g, S) ==
    LET N == S \cup { c \in Open(g) : \E r \in S : Adjacent(c, r) }
    IN  IF N = S THEN S ELSE ReachableFrom(g, N)

TaggedCells(g, tag) == { c \in Cells : g[c[1]][c[2]] = tag }

WallIndices == 1 .. Len(dynamicWalls)
EnemyIndices == 1 .. Len(enemies)

\* The world centre of the cell a dynamic wall is anchored at
AnchorCentre(w) == gridToWorld(w.gridX, w.gridZ)

\* C1: once generate() has returned, whatever the random choices were, every
\* cell tagged Empty, Start or Exit (the Exit cell among them) is reachable
\* from the Start cell by 4-adjacent steps through such cells only.
C1_AllOpenCellsReachable ==
    pc = "ready" => Open(grid) \subseteq ReachableFrom(grid, { <<startX, startZ>> })

\* A finished maze with a dynamic wall placed, whose Exit is reached from Start
C1_Witness ==
    /\ pc = "ready"
    /\ Len(dynamicWalls) > 0
    /\ grid[exitX][exitZ] = CELL_EXIT
    /\ <<exitX, exitZ>> \in ReachableFrom(grid, { <<startX, startZ>> })

\* C2: in every state after generate(), through any updates and shifts, the
\* grid has exactly one Start cell and exactly one Exit cell, and they are at
\* (startX, startZ) and (exitX, exitZ).
C2_OneStartOneExit ==
    Generated => /\ TaggedCells(grid, CELL_START) = { <<startX, startZ>> }
                 /\ TaggedCells(grid, CELL_EXIT) = { <<exitX, exitZ>> }

\* A maze in play after a shift that spawned an obstacle
C2_Witness ==
    /\ pc = "playing"
    /\ shiftCount > 0
    /\ Len(dynamicWalls) > numDynamic
    /\ grid[startX][startZ] = CELL_START
    /\ grid[exitX][exitZ] = CELL_EXIT

\* C3: generation is deterministic in its inputs: two runs of generate() given
\* the same size and the same seed return identical grids.  generate() takes no
\* argument (it seeds from the clock), so every two runs of one program are
\* given the same inputs.
C3_SameInputsSameGrid ==
    (pc = "ready" /\ prevGrid[startX][startZ] = CELL_START) => grid = prevGrid

\* C4: every obstacle whose current tag is Rotate or Slide is solid, through
\* any updates and shifts, a shift that retags a Pulse obstacle included.
C4_RotateSlideAlwaysSolid ==
    \A i \in WallIndices :
        dynamicWalls[i].type \in {CELL_DYNAMIC_ROTATE, CELL_DYNAMIC_SLIDE}
            => dynamicWalls[i].isActive

\* C5: a Pulse obstacle with scale <= 0 is not visible and one with scale > 0.5
\* is solid, an obstacle just spawned by a shift included.
C5_PulseFlagsFollowScale ==
    \A i \in WallIndices :
        dynamicWalls[i].type = CELL_DYNAMIC_SCALE
            => /\ (dynamicWalls[i].scale <= 0 => ~dynamicWalls[i].isVisible)
               /\ (dynamicWalls[i].scale > ActiveAbove => dynamicWalls[i].isActive)

\* C6: checkCollision treats the cell of a dynamic obstacle as blocking exactly
\* when the obstacle is solid: for a player-sized circle at the centre of the
\* obstacle's cell it returns true if the obstacle is solid (an obstacle spawned
\* by a shift on an Empty cell included) and false if it is not.
C6_BlocksExactlyWhenSolid ==
    Generated =>
        \A i \in WallIndices :
            checkCollision(grid, dynamicWalls, AnchorCentre(dynamicWalls[i]), PLAYER_RADIUS)
                <=> dynamicWalls[i].isActive

\* C7: the curve parameter of every Slide obstacle and of every Patrol or
\* CircularPatrol agent is within [0, 1] and its direction is +1 or -1, after
\* any updates and shifts.
C7_ParameterAndDirectionInRange ==
    /\ \A i \in WallIndices :
          dynamicWalls[i].type = CELL_DYNAMIC_SLIDE
              => /\ dynamicWalls[i].slideT >= 0
                 /\ dynamicWalls[i].slideT <= One
                 /\ dynamicWalls[i].slideDirection \in {1, -1}
    /\ \A i \in EnemyIndices :
          enemies[i].type \in {"ENEMY_PATROL", "ENEMY_CIRCULAR"}
              => /\ enemies[i].pathT >= 0
                 /\ enemies[i].pathT <= One
                 /\ enemies[i].direction \in {1, -1}

\* A Slide obstacle and a patrolling agent that have both turned round at the
\* far end of their paths
C7_Witness ==
    /\ \E i \in WallIndices : /\ dynamicWalls[i].type = CELL_DYNAMIC_SLIDE
                              /\ dynamicWalls[i].slideT = One
                              /\ dynamicWalls[i].slideDirection = -1
    /\ \E i \in EnemyIndices : /\ enemies[i].type = "ENEMY_PATROL"
                               /\ enemies[i].pathT = One
                               /\ enemies[i].direction = -1
    /\ \E i \in EnemyIndices : /\ enemies[i].type = "ENEMY_CIRCULAR"
                               /\ enemies[i].pathT > 0

\* C8: from a shift timer of zero, updates whose dt values sum to exactly
\* shiftInterval trigger exactly one shift, and updates whose dt values sum to
\* less than shiftInterval trigger none.
C8_OneShiftAtInterval ==
    pc = "playing" => /\ (elapsed = shiftInterval => shiftCount = 1)
                      /\ (elapsed < shiftInterval => shiftCount = 0)

\* The update that brings the sum of dt to shiftInterval has just run
C8_Witness ==
    /\ pc = "playing"
    /\ elapsed = shiftInterval
    /\ shiftCount = 1
    /\ shiftTimer = 0

\* dx * dx + dz * dz < r * r: the planar distance from a to b is below r
PlanarBelow(a, b, r) ==
    (a[1] - b[1]) * (a[1] - b[1]) + (a[3] - b[3]) * (a[3] - b[3]) < r * r

\* C9: after one update of a Chase agent with a player position supplied, the
\* agent is engaged (isChasing) if and only if the planar distance from the
\* agent to the player is below its detection radius, whatever the difference
\* in height.
C9_EngagedIffPlanarDistanceBelowRadius ==
    [][\A dt \in DtSet, p \in PlayerSpots :
          UpdateWithPlayer(dt, p) =>
              \A i \in EnemyIndices :
                  enemies[i].type = "ENEMY_CHASE" =>
                      (enemies'[i].isChasing
                          <=> PlanarBelow(enemies[i].position, p, enemies[i].detectionRange))]_vars

\* A Wall cell whose (unshrunk) square comes within radius of pos, among the
\* cells around the cell of pos
AdjacentWallWithin(g, pos, radius) ==
    LET gc == worldToGrid(pos)
    IN  \E dx \in -1 .. 1, dz \in -1 .. 1 :
           LET x == gc[1] + dx
               z == gc[2] + dz
               c == gridToWorld(x, z)
           IN  /\ <<dx, dz>> # <<0, 0>>
               /\ x \in Coord /\ z \in Coord
               /\ g[x][z] = CELL_WALL
               /\ pos[1] + radius > c[1] - cellSize \div 2
               /\ pos[1] - radius < c[1] + cellSize \div 2
               /\ pos[3] + radius > c[3] - cellSize \div 2
               /\ pos[3] - radius < c[3] + cellSize \div 2

\* C10: for an agent of radius 0.3, checkCollision is true at the world centre
\* of every cell tagged Wall, and false at the world centre of every Empty cell
\* that has no adjacent Wall within the radius.
C10_WallCentreBlocksEmptyCentreFree ==
    Generated =>
        \A c \in Cells :
            LET centre == gridToWorld(c[1], c[2])
            IN  /\ grid[c[1]][c[2]] = CELL_WALL
                    => checkCollision(grid, dynamicWalls, centre, PLAYER_RADIUS)
                /\ (grid[c[1]][c[2]] = CELL_EMPTY
                    /\ ~AdjacentWallWithin(grid, centre, PLAYER_RADIUS))
                    => ~checkCollision(grid, dynamicWalls, centre, PLAYER_RADIUS)

\* In play, with obstacles moving: an Empty cell beside a Wall cell is free at
\* its centre, the Wall cell blocks at its centre
C10_Witness ==
    /\ pc = "playing"
    /\ elapsed > 0
    /\ \E c \in Cells, d \in Cells :
          /\ Adjacent(c, d)
          /\ grid[c[1]][c[2]] = CELL_EMPTY
          /\ grid[d[1]][d[2]] = CELL_WALL
          /\ ~checkCollision(grid, dynamicWalls, gridToWorld(c[1], c[2]), PLAYER_RADIUS)
          /\ checkCollision(grid, dynamicWalls, gridToWorld(d[1], d[2]), PLAYER_RADIUS)

\* C11: for every (col, row) within the grid, worldToGrid(gridToWorld(col, row))
\* returns exactly (col, row).
C11_RoundTripIsIdentity ==
    lastCall.op = "worldToGrid" => lastCall.result = << lastCall.col, lastCall.row >>

\* The round trip made for the last cell of the grid, whose centre has positive
\* world coordinates, and got back
C11_Witness ==
    /\ lastCall.op = "worldToGrid"
    /\ lastCall.col = SIZE - 1
    /\ lastCall.row = 0
    /\ lastCall.result = << SIZE - 1, 0 >>

\* C12: getCell returns Wall for every coordinate outside the grid and the
\* stored tag for every coordinate inside it.
C12_GetCellWallOutsideTagInside ==
    lastCall.op = "getCell" =>
        IF lastCall.x \in Coord /\ lastCall.z \in Coord
        THEN lastCall.result = grid[lastCall.x][lastCall.z]
        ELSE lastCall.result = CELL_WALL

\* A lookup one column past the grid, answered Wall
C12_Witness ==
    /\ lastCall.op = "getCell"
    /\ lastCall.x = SIZE
    /\ lastCall.z = startZ
    /\ lastCall.result = CELL_WALL

CurveCalls == {"computeBernstein", "computeCasteljau"}

ScaledPoint(p) == << p[1] * Scale, p[2] * Scale, p[3] * Scale >>

\* C13: evaluating a curve of fewer than 2 control points fails with an
\* InvalidCurve error given to the caller; no point is returned for it.
C13_FewPointsIsInvalidCurve ==
    (lastCall.op \in CurveCalls /\ Len(lastCall.pts) < 2)
        => lastCall.result.status = "InvalidCurve"

\* C14: for every control polygon of 2 to MaxPoints points and every sampled
\* t, computeBernstein and computeCasteljau return the same point.
C14_BernsteinAgreesWithCasteljau ==
    (lastCall.op \in CurveCalls /\ Len(lastCall.pts) >= 2) =>
        /\ lastCall.result.status = "returned"
        /\ lastCall.result.point =
              IF lastCall.op = "computeBernstein"
              THEN computeCasteljauExact(lastCall.pts, lastCall.a)
              ELSE computeBernsteinExact(lastCall.pts, lastCall.a)

\* A curve of MaxPoints distinct-valued points evaluated at an inner t by the
\* Bernstein sum
C14_Witness ==
    /\ lastCall.op = "computeBernstein"
    /\ Len(lastCall.pts) = MaxPoints
    /\ lastCall.a = 1
    /\ lastCall.pts[1] # lastCall.pts[2]
    /\ lastCall.pts[2] # lastCall.pts[3]
    /\ lastCall.result.point = computeCasteljauExact(lastCall.pts, lastCall.a)

\* C15: for every control polygon of at least 2 points, the evaluation at
\* t = 0 returns the first control point and the evaluation at t = 1 returns
\* the last.
C15_EndpointsAreInterpolated ==
    (lastCall.op \in CurveCalls /\ Len(lastCall.pts) >= 2) =>
        /\ lastCall.a = 0 => lastCall.result = Returned(ScaledPoint(lastCall.pts[1]))
        /\ lastCall.a = TSteps
              => lastCall.result = Returned(ScaledPoint(lastCall.pts[Len(lastCall.pts)]))

\* The Bernstein sum at t = 0 on a curve whose first point is not the origin
\* and whose last point is another one
C15_Witness ==
    /\ lastCall.op = "computeBernstein"
    /\ Len(lastCall.pts) >= 3
    /\ lastCall.a = 0
    /\ lastCall.pts[1] # << 0, 0, 0 >>
    /\ lastCall.pts[Len(lastCall.pts)] # lastCall.pts[1]
    /\ lastCall.result.point = ScaledPoint(lastCall.pts[1])

\* C16: once generate() has returned, no operation of the running simulation
\* (update with its shifts, checkCollision, checkExit, getCell) changes the tag
\* of any grid cell.
C16_GridFrozenAfterGenerate ==
    [][Generated => grid' = grid]_vars

\* In play after a shift has spawned an obstacle, the frame having asked for a
\* collision
C16_Witness ==
    /\ pc = "playing"
    /\ shiftCount = 1
    /\ Len(dynamicWalls) > numDynamic
    /\ lastCall.op = "checkCollision"
    /\ grid[dynamicWalls[Len(dynamicWalls)].gridX][dynamicWalls[Len(dynamicWalls)].gridZ]
          = CELL_EMPTY

\* C17: a random placement that finds no cell of the wanted kind within its
\* attempt bound reports the failure to its caller, and does not return as if
\* the entity had been placed.
C17_PlacementFailureReported ==
    (pc = "ready" /\ Len(dynamicWalls) < numDynamic) => generateResult = "failure"

\* C18: generate() terminates for every sequence of random outcomes.
C18_GenerateTerminates == <>(pc = "ready")

\* generate() has returned although a wall found no cell in MaxAttempts tries
C18_Witness ==
    /\ pc = "ready"
    /\ Len(dynamicWalls) < numDynamic
    /\ stack = << >>
    /\ grid[exitX][exitZ] = CELL_EXIT

\* C19: after updates whose dt values sum to T, the number of shifts that have
\* fired is floor(T / shiftInterval), whatever the dt values are.
C19_ShiftCountIsElapsedOverInterval ==
    pc = "playing" => shiftCount = elapsed \div shiftInterval

\* C20: the rotation angle of a Rotate obstacle is within [0, 360) after every
\* update, for any dt > 0.
C20_RotationAngleWrapped ==
    \A i \in WallIndices :
        dynamicWalls[i].type = CELL_DYNAMIC_ROTATE
            => (dynamicWalls[i].rotationAngle >= 0 /\ dynamicWalls[i].rotationAngle < FullTurn)

\* The update that has just run called triggerShift
ShiftStep == shiftCount' = shiftCount + 1

\* C21: immediately after a shift, every obstacle that existed before it has
\* rotation angle 0, slide parameter 0 with direction +1 and state timer 0,
\* whether or not the shift gave it a new behaviour tag.
C21_ShiftResetsPhase ==
    [][ShiftStep =>
          \A i \in 1 .. Len(dynamicWalls) :
              /\ dynamicWalls'[i].rotationAngle = 0
              /\ dynamicWalls'[i].slideT = 0
              /\ dynamicWalls'[i].slideDirection = 1
              /\ dynamicWalls'[i].stateTimer = 0]_vars

\* Just after the shift at 30 s: a wall placed by generate() that is a Rotate
\* wall now, and would have turned by 270 degrees, is at angle 0
C21_Witness ==
    /\ pc = "playing"
    /\ shiftCount = 1
    /\ shiftTimer = 0
    /\ elapsed = shiftInterval
    /\ numDynamic > 0
    /\ Len(dynamicWalls) >= numDynamic
    /\ dynamicWalls[1].type = CELL_DYNAMIC_ROTATE
    /\ grid[dynamicWalls[1].gridX][dynamicWalls[1].gridZ] = CELL_DYNAMIC_ROTATE
    /\ dynamicWalls[1].rotationAngle = 0
    /\ dynamicWalls[1].slideT = 0
    /\ dynamicWalls[1].stateTimer = 0

\* C22: a shift adds at most one obstacle, and the obstacle it adds is a Pulse
\* obstacle with scale 0 and target scale 1 on a cell that is tagged Empty at
\* that moment and is neither Start nor Exit; no other step adds one, and from
\* one generation to the next the number of obstacles never goes down.
C22_ShiftAddsOnePulseOnEmpty ==
    [][(Generated /\ Generated') =>
          LET n == Len(dynamicWalls)
              added == dynamicWalls'[n + 1]
          IN  /\ Len(dynamicWalls') \in {n, n + 1}
              /\ Len(dynamicWalls') = n + 1 =>
                    /\ ShiftStep
                    /\ added.type = CELL_DYNAMIC_SCALE
                    /\ added.scale = 0
                    /\ added.targetScale = One
                    /\ grid'[added.gridX][added.gridZ] = CELL_EMPTY
                    /\ <<added.gridX, added.gridZ>> # <<startX, startZ>>
                    /\ <<added.gridX, added.gridZ>> # <<exitX, exitZ>>]_vars

\* Just after the shift at 30 s, which added an obstacle to the ones generate()
\* placed
C22_Witness ==
    /\ pc = "playing"
    /\ shiftCount = 1
    /\ shiftTimer = 0
    /\ Len(dynamicWalls) = numDynamic + 1
    /\ LET added == dynamicWalls[numDynamic + 1]
       IN  /\ added.type = CELL_DYNAMIC_SCALE
           /\ added.scale = 0
           /\ added.targetScale = One
           /\ grid[added.gridX][added.gridZ] = CELL_EMPTY

\* C23: in every reachable state (after construction, generation, updates,
\* the retagging and the spawning of a shift) an obstacle that is solid
\* (isActive) is also visible (isVisible).
C23_SolidIsVisible ==
    \A i \in WallIndices : dynamicWalls[i].isActive => dynamicWalls[i].isVisible

\* A Pulse obstacle placed by generate() that has faded out and has just come
\* back: solid again, and visible
C23_Witness ==
    /\ pc = "playing"
    /\ elapsed >= 4 * PulsePeriod
    /\ shiftCount = 0
    /\ \E i \in WallIndices :
          /\ dynamicWalls[i].type = CELL_DYNAMIC_SCALE
          /\ dynamicWalls[i].stateTimer = 0
          /\ dynamicWalls[i].targetScale = One
          /\ dynamicWalls[i].scale = One
          /\ dynamicWalls[i].isActive
          /\ dynamicWalls[i].isVisible

Min(a, b) == IF a < b THEN a ELSE b
Max(a, b) == IF a > b THEN a ELSE b

\* The obstacles that are Pulse obstacles when update is called
PulseIndices == { i \in WallIndices : dynamicWalls[i].type = CELL_DYNAMIC_SCALE }

\* C24: the target scale of a Pulse obstacle is always 0 or 1 and its scale is
\* always within [0, 1]; every update(dt) with dt > 0 moves the scale toward
\* the target without passing it, and a scale that has reached the target
\* stays on it until the target flips.
C24_ScaleMovesToTargetWithinUnit ==
    /\ [](\A i \in PulseIndices :
            /\ dynamicWalls[i].targetScale \in {0, One}
            /\ dynamicWalls[i].scale >= 0
            /\ dynamicWalls[i].scale <= One)
    /\ [][elapsed' > elapsed =>
            \A i \in PulseIndices :
                LET before == dynamicWalls[i]
                    after == dynamicWalls'[i]
                IN  /\ after.scale >= Min(before.scale, after.targetScale)
                    /\ after.scale <= Max(before.scale, after.targetScale)
                    /\ before.scale # after.targetScale => after.scale # before.scale
                    /\ (before.scale = before.targetScale
                          /\ after.targetScale = before.targetScale)
                        => after.scale = before.scale]_vars

\* The Pulse obstacle a shift spawned on an Empty cell, one update later: part
\* of the way up from 0 to its target 1
C24_Witness ==
    /\ pc = "playing"
    /\ shiftCount = 1
    /\ shiftTimer > 0
    /\ \E i \in PulseIndices :
          /\ grid[dynamicWalls[i].gridX][dynamicWalls[i].gridZ] = CELL_EMPTY
          /\ dynamicWalls[i].targetScale = One
          /\ dynamicWalls[i].scale > 0
          /\ dynamicWalls[i].scale < One

\* C25: within one frame of the driver the maze update is complete before the
\* agents are updated: the agent update of frame n runs when the maze has
\* been updated n times, so it finds the obstacles of frame n and never
\* those of frame n - 1.
C25_MazeUpdatedBeforeEnemies ==
    [][FrameLog'.enemyUpdates = FrameLog.enemyUpdates + 1
          => FrameLog.mazeUpdates = FrameLog.enemyUpdates + 1]_vars

\* The frame in which the maze shifted is over: both updates have run twice,
\* the agents' last
C25_Witness ==
    /\ pc = "playing"
    /\ lastCall.op = "enemies.update"
    /\ lastCall.mazeUpdates = 2
    /\ lastCall.enemyUpdates = 2
    /\ shiftCount = 1
    /\ shiftTimer = 0

\* generatePaths(1, 1) has carved all it can and is about to return to
\* generate(): Start and Exit are not marked yet and nothing is repaired
CarveDone ==
    /\ pc = "carve"
    /\ Len(stack) = 1
    /\ Carvable(grid, stack[1].x, stack[1].z) = {}

EmptyCells == TaggedCells(grid, CELL_EMPTY)

\* The ordered pairs of 4-adjacent cells of S: two for each passage
AdjacentPairs(S) == { p \in S \X S : Adjacent(p[1], p[2]) }

\* C26: right after the recursive-backtracking carve and before the repair,
\* whatever the shuffles gave, the cells tagged Empty form a perfect maze:
\* they are connected under 4-adjacency and have no cycle (a connected graph
\* with one edge fewer than it has cells), so exactly one path joins any two.
C26_CarveLeavesPerfectMaze ==
    CarveDone =>
        /\ EmptyCells \subseteq ReachableFrom(grid, { <<1, 1>> })
        /\ Cardinality(AdjacentPairs(EmptyCells)) = 2 * (Cardinality(EmptyCells) - 1)

\* The carve is over and has reached the far odd cell (3, 3)
C26_Witness ==
    /\ CarveDone
    /\ grid[1][1] = CELL_EMPTY
    /\ grid[3][3] = CELL_EMPTY
    /\ Cardinality(EmptyCells) >= 7

RECURSIVE Factorial(_)
Factorial(n) == IF n = 0 THEN 1 ELSE n * Factorial(n - 1)

\* C27: for 0 <= k <= n, binomial(n, k) by the multiplicative recurrence is the
\* exact coefficient n! / (k! (n-k)!), every division on the way is exact and
\* no product on the way is beyond the 32-bit signed range; for k > n the
\* result is 0.
C27_BinomialIsExact ==
    lastCall.op = "binomial" =>
        /\ lastCall.k <= lastCall.n =>
              lastCall.result * (Factorial(lastCall.k) * Factorial(lastCall.n - lastCall.k))
                  = Factorial(lastCall.n)
        /\ lastCall.k > lastCall.n => lastCall.result = 0
        /\ \A i \in 1 .. Len(lastCall.steps) :
              /\ lastCall.steps[i].product % lastCall.steps[i].divisor = 0
              /\ lastCall.steps[i].product <= 2147483647

\* binomial(6, 3), the middle coefficient of the largest curve in use, has
\* returned 20 after three exact divisions
C27_Witness ==
    /\ lastCall.op = "binomial"
    /\ lastCall.n = 6
    /\ lastCall.k = 3
    /\ Len(lastCall.steps) = 3
    /\ lastCall.steps[3].product = 60
    /\ lastCall.result = 20

\* C28: in every reachable state every obstacle whose tag is Slide owns a
\* slide path of at least 2 control points, an obstacle that a shift retagged
\* to Slide after it was made a Rotate or Pulse obstacle, or spawned by a
\* shift, included.
C28_SlideHasPath ==
    \A i \in WallIndices :
        dynamicWalls[i].type = CELL_DYNAMIC_SLIDE => Len(dynamicWalls[i].slidePath) >= 2

\* C29: in every reachable state, after generation and any number of shifts,
\* no two obstacles of the list are anchored at the same grid cell.
C29_AnchorsDistinct ==
    \A i, j \in WallIndices :
        (dynamicWalls[i].gridX = dynamicWalls[j].gridX
            /\ dynamicWalls[i].gridZ = dynamicWalls[j].gridZ) => i = j

\* The cells of the outer border: col or row equal to 0 or SIZE - 1
BorderCells == { c \in Cells : c[1] \in {0, SIZE - 1} \/ c[2] \in {0, SIZE - 1} }

\* C30: after generate() and in every later state every cell of the outer
\* border is tagged Wall: carving, marking Start and Exit, the repair, the
\* placement of dynamic walls and the spawning of a shift touch interior
\* cells only.
C30_BorderIsWall ==
    Generated => \A c \in BorderCells : grid[c[1]][c[2]] = CELL_WALL

\* A maze in play after a shift, with the repair's path along the last
\* interior column, a dynamic wall next to the border, and the border intact
C30_Witness ==
    /\ pc = "playing"
    /\ shiftCount = 1
    /\ grid[exitX][exitZ] = CELL_EXIT
    /\ grid[exitX][exitZ - 1] = CELL_EMPTY
    /\ \E i \in WallIndices :
          /\ dynamicWalls[i].gridX \in {1, SIZE - 2} \/ dynamicWalls[i].gridZ \in {1, SIZE - 2}
          /\ grid[dynamicWalls[i].gridX][dynamicWalls[i].gridZ] # CELL_EMPTY
    /\ \A c \in BorderCells : grid[c[1]][c[2]] = CELL_WALL

====
